---- MODULE Spec2Model ----
(***************************************************************************)
(* A model of the three algorithmic routines of MHN.py:                    *)
(*   find_shortest_path       (Dijkstra over an adjacency-dict graph)      *)
(*   calculate_itin_measures  (F_MEAS / T_MEAS of every itinerary row)     *)
(*   validate_itin_times      (DEP_TIME / ARR_TIME / LINE_SERV_TIME repair)*)
(* and of the TIPID conversions tipid_from_int, tipid_to_int and is_tipid.  *)
(* Each routine has its own specification (SpecPath, SpecMeas, SpecTime,   *)
(* SpecTipid); the variables of the other routines stay at their idle      *)
(* values.                                                                 *)
(***************************************************************************)
EXTENDS Integers, Sequences, FiniteSets, Bags

VARIABLES
    pc,                 \* position of the running routine
    result,             \* what the routine returned, or the exception it raised
    graph, start, end,  \* find_shortest_path: the arguments
    queue, seen,        \* find_shortest_path: the heap and the visited set
    visit_costs,        \* find_shortest_path: p_cost of every node marked seen, in order
    abb_miles_dict,     \* itinerary routines: ABB -> MILES of the arc
    itin_in,            \* calculate_itin_measures: the table as it was passed in
    itin_table,         \* calculate_itin_measures: the table's rows, in stored order
    route_miles_dict,   \* calculate_itin_measures: route -> summed MILES
    cursor,             \* calculate_itin_measures: the rows the open cursor still yields
    cumulative_percent, \* calculate_itin_measures: running T_MEAS
    order_tracker,      \* calculate_itin_measures: ITIN_ORDER of the last row
    prev_arr_time,      \* validate_itin_times: ARR_TIME carried from the last row
    arr_before,         \* validate_itin_times: prev_arr_time as the last row's pass read it
    seg_in,             \* validate_itin_times: the last row, as the cursor yielded it
    seg_out,            \* validate_itin_times: the last row, as the table now holds it
    tip_n,              \* tipid_from_int: the argument n
    tip_id,             \* tipid_from_int: what it returned
    tip_int             \* tipid_to_int: what it returned for tip_id

pathVars == <<graph, start, end, queue, seen, visit_costs>>
measVars == <<itin_in, itin_table, route_miles_dict, cursor, cumulative_percent,
              order_tracker>>
timeVars == <<prev_arr_time, arr_before, seg_in, seg_out>>
tipVars == <<tip_n, tip_id, tip_int>>
vars == <<pc, result, pathVars, abb_miles_dict, measVars, timeVars, tipVars>>

(***************************************************************************)
(* Bounds of the inputs.                                                   *)
(***************************************************************************)
MaxCost == 2
Nodes == {1, 2, 3}
MaxRows == 4
MaxMiles == 2
MaxTime == 2
MaxLow == 1
Links == {1, 2}

None == [kind |-> "None"]

(***************************************************************************)
(* The idle values of each routine's variables while another routine runs. *)
(***************************************************************************)
IdlePath ==
    /\ graph = <<>>
    /\ start = 0
    /\ end = 0
    /\ queue = EmptyBag
    /\ seen = {}
    /\ visit_costs = <<>>

IdleMeas ==
    /\ itin_in = <<>>
    /\ itin_table = <<>>
    /\ route_miles_dict = <<>>
    /\ cursor = <<>>
    /\ cumulative_percent = <<0, 1>>
    /\ order_tracker = 0

\* No row: the cursor has yielded nothing yet.
NoSeg ==
    [route |-> 0, order |-> 0, abb |-> 0, dep |-> 0, arr |-> 0, ltime |-> 0]

IdleTime ==
    /\ prev_arr_time = 0
    /\ arr_before = 0
    /\ seg_in = NoSeg
    /\ seg_out = NoSeg

IdleTipid ==
    /\ tip_n = 0
    /\ tip_id = None
    /\ tip_int = None

(***************************************************************************)
(* find_shortest_path                                                      *)
(***************************************************************************)

\* Python's order on lists: the first differing element decides, a proper
\* prefix is smaller.
ListLess(a, b) ==
    \E i \in 1..(Len(b)) :
        /\ \A j \in 1..(i - 1) : j <= Len(a) /\ a[j] = b[j]
        /\ i - 1 <= Len(a)
        /\ \/ i = Len(a) + 1
           \/ i <= Len(a) /\ a[i] < b[i]

\* Python's order on the heap's tuples (p_cost, node, path).
TupleLess(x, y) ==
    \/ x[1] < y[1]
    \/ x[1] = y[1] /\ x[2] < y[2]
    \/ x[1] = y[1] /\ x[2] = y[2] /\ ListLess(x[3], y[3])

\* heapq.heappop takes the smallest tuple of the heap.
HeapMinMax(q) ==
    CHOOSE x \in BagToSet(q) : \A y \in BagToSet(q) : x = y \/ TupleLess(y, x)

HeapMin(q) ==
    CHOOSE x \in BagToSet(q) : \A y \in BagToSet(q) : x = y \/ TupleLess(x, y)

HeapPopPeek(q) == q

\* heappop removes the tuple it returns.
HeapPop(q) == q (-) SetToBag({HeapMin(q)})

\* The tuples pushed for the outgoing edges of node: one per dictionary item.
PushesNoCost(g, node, p_cost, path) ==
    IF node \in DOMAIN g
    THEN SetToBag({ <<p_cost, b, path>> : b \in DOMAIN g[node] })
    ELSE EmptyBag

Pushes(g, node, p_cost, path) ==
    IF node \in DOMAIN g
    THEN SetToBag({ <<p_cost + g[node][b], b, path>> : b \in DOMAIN g[node] })
    ELSE EmptyBag

\* The loop body only reads graph.
GraphAfterExpandPops(g, node) ==
    [k \in DOMAIN g \ {node} |-> g[k]]

GraphAfterExpand(g, node) == g

\* The graphs of the inputs: every node is a key or not, and a key maps a set
\* of other nodes to costs.
NeighbourMaps(n) ==
    UNION { [S -> 0..MaxCost] : S \in SUBSET (Nodes \ {n}) }

Graphs ==
    UNION { { g \in [K -> UNION { NeighbourMaps(n) : n \in K }] :
                \A n \in K : g[n] \in NeighbourMaps(n) } : K \in SUBSET Nodes }

\* queue = [(0, start, [])]
InitQueueWithStart(s) == SetToBag({ <<0, s, <<s>> >> })

InitQueue(s) == SetToBag({ <<0, s, <<>> >> })

InitPath ==
    /\ graph \in Graphs
    /\ start \in Nodes
    /\ end \in Nodes
    /\ queue = InitQueue(start)
    /\ seen = {}
    /\ visit_costs = <<>>
    /\ pc = "loop"
    /\ result = None
    /\ abb_miles_dict = <<>>
    /\ IdleMeas
    /\ IdleTime
    /\ IdleTipid

\* heappop on an empty heap raises IndexError out of the routine.
PopEmpty ==
    /\ pc = "loop"
    /\ queue = EmptyBag
    /\ pc' = "raised"
    /\ result' = [kind |-> "IndexError"]
    /\ UNCHANGED <<pathVars, abb_miles_dict, measVars, timeVars, tipVars>>

\* The popped node was visited before: nothing but the heap changes.
PopSeen ==
    /\ pc = "loop"
    /\ queue # EmptyBag
    /\ HeapMin(queue)[2] \in seen
    /\ queue' = HeapPop(queue)
    /\ UNCHANGED <<pc, result, graph, start, end, seen, visit_costs>>
    /\ UNCHANGED <<abb_miles_dict, measVars, timeVars, tipVars>>

\* The popped node is the end: return its cost and path.
PopEnd ==
    /\ pc = "loop"
    /\ queue # EmptyBag
    /\ LET t == HeapMin(queue)
           path == Append(t[3], t[2])
       IN /\ t[2] \notin seen
          /\ t[2] = end
          /\ seen' = seen \cup {t[2]}
          /\ visit_costs' = Append(visit_costs, t[1])
          /\ queue' = HeapPop(queue)
          /\ result' = [kind |-> "returned", cost |-> t[1], path |-> path]
          /\ pc' = "returned"
    /\ UNCHANGED <<graph, start, end, abb_miles_dict, measVars, timeVars, tipVars>>

\* The popped node is new and not the end: push its outgoing edges.
PopExpand ==
    /\ pc = "loop"
    /\ queue # EmptyBag
    /\ LET t == HeapMin(queue)
           path == Append(t[3], t[2])
       IN /\ t[2] \notin seen
          /\ t[2] # end
          /\ seen' = seen \cup {t[2]}
          /\ visit_costs' = Append(visit_costs, t[1])
          /\ queue' = HeapPop(queue) (+) Pushes(graph, t[2], t[1], path)
          /\ graph' = GraphAfterExpand(graph, t[2])
    /\ UNCHANGED <<pc, result, start, end, abb_miles_dict, measVars, timeVars, tipVars>>

NextPath == PopEmpty \/ PopSeen \/ PopEnd \/ PopExpand

SpecPath == InitPath /\ [][NextPath]_vars

\* The routine runs on: while an iteration of the loop can be taken, one is.
SpecPathFair == SpecPath /\ WF_vars(NextPath)

(***************************************************************************)
(* Properties of find_shortest_path.                                       *)
(***************************************************************************)

\* The walks of g with at most Cardinality(Nodes) edges.
IsWalk(g, p) ==
    \A i \in 1..(Len(p) - 1) :
        p[i] \in DOMAIN g /\ p[i + 1] \in DOMAIN g[p[i]]

RECURSIVE WalkCost(_, _)
WalkCost(g, p) ==
    IF Len(p) <= 1 THEN 0
    ELSE g[p[1]][p[2]] + WalkCost(g, Tail(p))

WalksFromTo(g, u, v) ==
    { p \in UNION { [1..n -> Nodes] : n \in 1..(Cardinality(Nodes) + 1) } :
        p[1] = u /\ p[Len(p)] = v /\ IsWalk(g, p) }

Reachable == WalksFromTo(graph, start, end) # {}

MinWalkCost ==
    LET costs == { WalkCost(graph, p) : p \in WalksFromTo(graph, start, end) }
    IN CHOOSE c \in costs : \A d \in costs : c <= d

\* C1: when end is reachable from start, the run returns, and the cost it
\* returns is the minimum over the walks from start to end of the sum of the
\* edge costs.
C1_MinimalCost ==
    (pc # "loop" /\ Reachable) =>
        (pc = "returned" /\ result.cost = MinWalkCost)

\* A run that returned a two-edge path cheaper than the direct edge.
C1_Witness ==
    /\ pc = "returned"
    /\ Len(result.path) = 3
    /\ start \in DOMAIN graph
    /\ end \in DOMAIN graph[start]
    /\ result.cost < graph[start][end]

\* C2: a returned path is a walk of graph from start to end, and the returned
\* cost is the sum of the costs of its edges.
C2_ValidPath ==
    pc = "returned" =>
        /\ Len(result.path) >= 1
        /\ result.path[1] = start
        /\ result.path[Len(result.path)] = end
        /\ IsWalk(graph, result.path)
        /\ result.cost = WalkCost(graph, result.path)

\* A run that returned a path through all three nodes at a positive cost.
C2_Witness ==
    /\ pc = "returned"
    /\ Len(result.path) = 3
    /\ result.cost > 0
    /\ result.cost = MaxCost + 1

\* C3: when end is not reachable from start the run ends with an explicit
\* "not found" result, and not with the exception of popping the empty heap.
C3_ExplicitNotFound ==
    (pc # "loop" /\ ~Reachable) =>
        (pc = "returned" /\ result.kind = "NotFound")

\* C4: with start = end the run returns cost 0 and the path [start].
C4_StartIsEnd ==
    (pc # "loop" /\ start = end) =>
        result = [kind |-> "returned", cost |-> 0, path |-> <<start>>]

\* start = end returned for a node that is no key of graph.
C4_Witness ==
    /\ pc = "returned"
    /\ start = end
    /\ start \notin DOMAIN graph

\* C5: no step of the run changes graph.
C5_GraphUnchanged == [][graph' = graph]_vars

\* A run that expanded two nodes with outgoing edges before it returned.
C5_Witness ==
    /\ pc = "returned"
    /\ Cardinality(seen) = 3
    /\ \A n \in seen \ {end} : n \in DOMAIN graph /\ DOMAIN graph[n] # {}

(***************************************************************************)
(* calculate_itin_measures                                                 *)
(*                                                                         *)
(* MILES are counted in hundredths of a mile.  F_MEAS and T_MEAS are exact *)
(* fractions <<numerator, denominator>> in lowest terms.                   *)
(***************************************************************************)

RECURSIVE GCD(_, _)
GCD(a, b) == IF b = 0 THEN a ELSE GCD(b, a % b)

Abs(n) == IF n < 0 THEN 0 - n ELSE n

\* The fraction n / d (d > 0) in lowest terms.
Frac(n, d) ==
    LET g == GCD(Abs(n), d) IN <<n \div g, d \div g>>

FracAdd(x, y) == Frac(x[1] * y[2] + y[1] * x[2], x[2] * y[2])

\* segment_length / route_miles_dict[route] * 100
SegmentPercent(segment_length, route_miles) ==
    Frac(segment_length * 100, route_miles)

\* A row of the itinerary table: TRANSIT_LINE, ITIN_ORDER, ABB, F_MEAS, T_MEAS.
NullMeasure == <<0 - 1, 1>>

ItinRow(route, order, abb) ==
    [route |-> route, order |-> order, abb |-> abb,
     f_meas |-> NullMeasure, t_meas |-> NullMeasure]

Reverse(s) == [i \in 1..Len(s) |-> s[Len(s) + 1 - i]]

\* The rows of one route: n rows, ITIN_ORDER counting up from first.
RouteRows(route, n, first, links) ==
    [i \in 1..n |-> ItinRow(route, first + i - 1, links[i])]

\* The ITIN_ORDER a route's first row may carry.
FirstOrders == {1, 2}

\* The input tables: at most two routes and MaxRows rows, stored in
\* (TRANSIT_LINE, ITIN_ORDER) order or in the reverse of it.
OrderedTables ==
    UNION { UNION { { RouteRows(1, n1, f1, SubSeq(links, 1, n1))
                        \o RouteRows(2, n2, f2, SubSeq(links, n1 + 1, n1 + n2)) :
                      f1 \in FirstOrders, f2 \in FirstOrders,
                      links \in [1..(n1 + n2) -> Links] } :
                    n2 \in 0..(MaxRows - n1) } : n1 \in 0..MaxRows }

ItinTables == OrderedTables \cup { Reverse(t) : t \in OrderedTables }

\* The lookups make_attribute_dict may build: any subset of the links, each
\* with its MILES.
MilesDicts == UNION { [S -> 0..MaxMiles] : S \in SUBSET Links }

\* The order in which a cursor without ORDER BY yields the rows.
NaturalOrder(table) == [i \in 1..Len(table) |-> i]

\* ORDER BY TRANSIT_LINE, ITIN_ORDER
RowBefore(a, b) ==
    \/ a.route < b.route
    \/ a.route = b.route /\ a.order <= b.order

OrderBy(table) ==
    CHOOSE s \in [1..Len(table) -> 1..Len(table)] :
        /\ \A i, j \in 1..Len(table) : i # j => s[i] # s[j]
        /\ \A i \in 1..(Len(table) - 1) : RowBefore(table[s[i]], table[s[i + 1]])

\* if row_order == 1: cumulative_percent = 0
StartPercentNoReset(row_order, cumulative) == cumulative

StartPercent(row_order, cumulative) ==
    IF row_order = 1 THEN <<0, 1>> ELSE cumulative

UpdateRowMoveLast(table, i, f, t) ==
    SubSeq(table, 1, i - 1) \o SubSeq(table, i + 1, Len(table))
        \o << [table[i] EXCEPT !.f_meas = f, !.t_meas = t] >>

\* row[3] = F_MEAS; row[4] = T_MEAS; updateRow(row): the row under the cursor
\* is rewritten where it is.
UpdateRow(table, i, f, t) ==
    [table EXCEPT ![i].f_meas = f, ![i].t_meas = t]

InitMeas ==
    /\ abb_miles_dict \in MilesDicts
    /\ itin_in \in ItinTables
    /\ itin_table = itin_in
    /\ route_miles_dict = <<>>
    /\ cursor = NaturalOrder(itin_in)
    /\ cumulative_percent = <<0, 1>>
    /\ order_tracker = 0
    /\ pc = "pass1"
    /\ result = None
    /\ IdlePath
    /\ IdleTime
    /\ IdleTipid

\* 1st loop, one row: add the row's MILES to its route's total.
Pass1Row ==
    /\ pc = "pass1"
    /\ cursor # <<>>
    /\ LET row == itin_table[Head(cursor)]
       IN /\ row.abb \in DOMAIN abb_miles_dict
          /\ route_miles_dict' =
                IF row.route \in DOMAIN route_miles_dict
                THEN [route_miles_dict EXCEPT
                        ![row.route] = @ + abb_miles_dict[row.abb]]
                ELSE [r \in DOMAIN route_miles_dict \cup {row.route} |->
                        IF r = row.route THEN abb_miles_dict[row.abb]
                        ELSE route_miles_dict[r]]
    /\ cursor' = Tail(cursor)
    /\ UNCHANGED <<pc, result, pathVars, abb_miles_dict, itin_in, itin_table,
                   cumulative_percent, order_tracker, timeVars, tipVars>>

\* 1st loop, a row whose ABB is no key of abb_miles_dict: KeyError.
Pass1KeyError ==
    /\ pc = "pass1"
    /\ cursor # <<>>
    /\ itin_table[Head(cursor)].abb \notin DOMAIN abb_miles_dict
    /\ pc' = "raised"
    /\ result' = [kind |-> "KeyError", key |-> itin_table[Head(cursor)].abb]
    /\ UNCHANGED <<pathVars, abb_miles_dict, measVars, timeVars, tipVars>>

\* The 1st loop is over: open the update cursor of the 2nd loop.
OpenUpdateCursor ==
    /\ pc = "pass1"
    /\ cursor = <<>>
    /\ pc' = "pass2"
    /\ cursor' = OrderBy(itin_table)
    /\ order_tracker' = 0
    /\ cumulative_percent' = <<0, 1>>
    /\ UNCHANGED <<result, pathVars, abb_miles_dict, itin_in, itin_table,
                   route_miles_dict, timeVars, tipVars>>

\* 2nd loop, one row: write F_MEAS and T_MEAS.
Pass2Row ==
    /\ pc = "pass2"
    /\ cursor # <<>>
    /\ LET i == Head(cursor)
           row == itin_table[i]
           from == StartPercent(row.order, cumulative_percent)
           segment_length == abb_miles_dict[row.abb]
       IN /\ route_miles_dict[row.route] # 0
          /\ LET segment_percent ==
                     SegmentPercent(segment_length, route_miles_dict[row.route])
                 new_cumulative_percent == FracAdd(from, segment_percent)
             IN /\ itin_table' =
                      UpdateRow(itin_table, i, from, new_cumulative_percent)
                /\ cumulative_percent' = new_cumulative_percent
          /\ order_tracker' = row.order
    /\ cursor' = Tail(cursor)
    /\ UNCHANGED <<pc, result, pathVars, abb_miles_dict, itin_in,
                   route_miles_dict, timeVars, tipVars>>

\* 2nd loop, a row of a route whose total MILES is 0: the division raises
\* ZeroDivisionError.
Pass2ZeroDivision ==
    /\ pc = "pass2"
    /\ cursor # <<>>
    /\ route_miles_dict[itin_table[Head(cursor)].route] = 0
    /\ pc' = "raised"
    /\ result' = [kind |-> "ZeroDivisionError"]
    /\ UNCHANGED <<pathVars, abb_miles_dict, measVars, timeVars, tipVars>>

\* The 2nd loop is over: return itin_table.
ReturnMeas ==
    /\ pc = "pass2"
    /\ cursor = <<>>
    /\ pc' = "returned"
    /\ result' = [kind |-> "returned"]
    /\ UNCHANGED <<pathVars, abb_miles_dict, measVars, timeVars, tipVars>>

NextMeas ==
    \/ Pass1Row
    \/ Pass1KeyError
    \/ OpenUpdateCursor
    \/ Pass2Row
    \/ Pass2ZeroDivision
    \/ ReturnMeas

SpecMeas == InitMeas /\ [][NextMeas]_vars

(***************************************************************************)
(* Properties of calculate_itin_measures.                                  *)
(***************************************************************************)

RECURSIVE SumMiles(_, _)
SumMiles(t, I) ==
    IF I = {} THEN 0
    ELSE LET i == CHOOSE k \in I : TRUE
         IN abb_miles_dict[t[i].abb] + SumMiles(t, I \ {i})

\* The rows of t in the route of row i, and those of them before row i.
RouteOf(t, i) == { j \in 1..Len(t) : t[j].route = t[i].route }

BeforeInRoute(t, i) == { j \in RouteOf(t, i) : t[j].order < t[i].order }

AllLinksPresent(t) == \A i \in 1..Len(t) : t[i].abb \in DOMAIN abb_miles_dict

\* Every route's lowest ITIN_ORDER is 1.
StartsAtOne(t) ==
    \A i \in 1..Len(t) : BeforeInRoute(t, i) = {} => t[i].order = 1

\* The fraction x equals n / d.
FracIs(x, n, d) == x[1] * d = n * x[2]

\* C6: after a run on routes that all start at ITIN_ORDER 1, every row's
\* F_MEAS is 100 * (MILES of the route's rows before it) / (route MILES) and
\* its T_MEAS is F_MEAS + 100 * MILES / (route MILES): the first row of every
\* route starts at 0, the last ends at 100, whatever route came before.
C6_Measures ==
    (pc = "returned" /\ StartsAtOne(itin_in)) =>
        \A i \in 1..Len(itin_table) :
            LET total == SumMiles(itin_in, RouteOf(itin_in, i))
                before == SumMiles(itin_in, BeforeInRoute(itin_in, i))
                miles == abb_miles_dict[itin_in[i].abb]
            IN /\ total > 0
               /\ FracIs(itin_table[i].f_meas, 100 * before, total)
               /\ FracIs(itin_table[i].t_meas, 100 * (before + miles), total)
               /\ itin_table[i].t_meas =
                    FracAdd(itin_table[i].f_meas, Frac(100 * miles, total))
               /\ BeforeInRoute(itin_in, i) = {} =>
                    itin_table[i].f_meas = <<0, 1>>
               /\ BeforeInRoute(itin_in, i) \cup {i} = RouteOf(itin_in, i) =>
                    itin_table[i].t_meas = <<100, 1>>

\* A route of MILES 1, 2, 1 measured [0,25], [25,75], [75,100], processed
\* before a second route measured [0,100].
C6_Witness ==
    /\ pc = "returned"
    /\ order_tracker # 0
    /\ Len(itin_table) = 4
    /\ \E s \in {OrderBy(itin_table)} :
        /\ itin_table[s[1]].route = 1 /\ itin_table[s[3]].route = 1
        /\ itin_table[s[1]].order = 1
        /\ itin_table[s[1]].f_meas = <<0, 1>>  /\ itin_table[s[1]].t_meas = <<25, 1>>
        /\ itin_table[s[2]].f_meas = <<25, 1>> /\ itin_table[s[2]].t_meas = <<75, 1>>
        /\ itin_table[s[3]].f_meas = <<75, 1>> /\ itin_table[s[3]].t_meas = <<100, 1>>
        /\ itin_table[s[4]].route = 2
        /\ itin_table[s[4]].order = 1
        /\ itin_table[s[4]].f_meas = <<0, 1>>  /\ itin_table[s[4]].t_meas = <<100, 1>>

\* The routes of t whose rows' MILES sum to 0.
ZeroRoutes(t) ==
    { t[i].route : i \in { k \in 1..Len(t) : SumMiles(t, RouteOf(t, k)) = 0 } }

\* C7: a run on a table with a route of total MILES 0 (every link being in
\* the lookup) ends in a "degenerate route" error that names such a route.
C7_DegenerateRoute ==
    (pc \in {"returned", "raised"} /\ AllLinksPresent(itin_in)
        /\ ZeroRoutes(itin_in) # {}) =>
        /\ pc = "raised"
        /\ result.kind = "DegenerateRoute"
        /\ result.route \in ZeroRoutes(itin_in)

(***************************************************************************)
(* validate_itin_times                                                     *)
(*                                                                         *)
(* The update cursor yields the rows in (TRANSIT_LINE, ITIN_ORDER) order,  *)
(* one per step.  The loop carries prev_arr_time; the model keeps the last *)
(* row as yielded (seg_in) and as written back (seg_out), so that a step   *)
(* relates the row written before (seg_out) to the row written now         *)
(* (seg_out').  DEP_TIME and ARR_TIME are seconds, LINE_SERV_TIME is       *)
(* counted in tenths of a minute.                                          *)
(***************************************************************************)

\* The LINE_SERV_TIME of the input rows (2.0 minutes).
ServTimes == {20}

\* The tables hold at most two routes.
Routes == {1, 2}

\* The rows the cursor may yield after seg: the next row of the same route
\* (ITIN_ORDER at most MaxRows), or the first row of the next route.
NextKeys(seg) ==
    IF seg.route = 0
    THEN { <<1, f>> : f \in FirstOrders }
    ELSE { k \in { <<seg.route, seg.order + 1>> }
                    \cup { <<seg.route + 1, f>> : f \in FirstOrders } :
            k[1] \in Routes /\ k[2] <= MaxRows }

NextSegs(seg) ==
    { [route |-> k[1], order |-> k[2], abb |-> abb,
       dep |-> dep, arr |-> arr, ltime |-> ltime] :
        k \in NextKeys(seg), abb \in Links,
        dep \in 0..MaxTime, arr \in 0..MaxTime, ltime \in ServTimes }

\* Adjust dep_time & arr_time to accommodate changes to last segment:
\* <<dep_time, arr_time>> after the first if-statement of the loop body.
AdjustTimesDepOnly(row_order, dep_time, arr_time, prev) ==
    IF row_order > 1 /\ dep_time < prev
    THEN <<dep_time + (prev - dep_time), arr_time>>
    ELSE <<dep_time, arr_time>>

AdjustTimesNoGuard(row_order, dep_time, arr_time, prev) ==
    IF row_order > 1
    THEN LET dep == dep_time + (prev - dep_time)
         IN <<dep, IF arr_time < dep THEN arr_time + (dep - arr_time) ELSE arr_time>>
    ELSE <<dep_time, arr_time>>

AdjustTimesAnyOrder(row_order, dep_time, arr_time, prev) ==
    IF dep_time < prev
    THEN LET dep == dep_time + (prev - dep_time)
         IN <<dep, IF arr_time < dep THEN arr_time + (dep - arr_time) ELSE arr_time>>
    ELSE <<dep_time, arr_time>>

AdjustTimesSameShift(row_order, dep_time, arr_time, prev) ==
    IF row_order > 1 /\ dep_time < prev
    THEN LET discrep_d == prev - dep_time
             dep == dep_time + discrep_d
         IN IF arr_time < dep
            THEN <<dep, arr_time + discrep_d>>
            ELSE <<dep, arr_time>>
    ELSE <<dep_time, arr_time>>

AdjustTimes(row_order, dep_time, arr_time, prev) ==
    IF row_order > 1 /\ dep_time < prev
    THEN LET discrep_d == prev - dep_time
             dep == dep_time + discrep_d
         IN IF arr_time < dep
            THEN LET discrep_a == dep - arr_time
                 IN <<dep, arr_time + discrep_a>>
            ELSE <<dep, arr_time>>
    ELSE <<dep_time, arr_time>>

TimeEstMinutes(segment_length) == (2 * segment_length + 50) \div 100

\* int(round(segment_length / 30 * 60 * 60)): seconds at 30 mph, for a length
\* in hundredths of a mile (1.2 seconds each; no length falls on a half).
TimeEst(segment_length) == (12 * segment_length + 5) \div 10

\* The time_est below one minute for which time_est / 60. lies just under a
\* half of a tenth as a double, so that round(..., 1) rounds it down.
TiesDown == {9, 21, 51, 57}

ServTimeNoFloor(time_est) ==
    IF time_est \in TiesDown THEN time_est \div 6 ELSE (time_est + 3) \div 6

\* max(round(time_est / 60., 1), 0.1), in tenths of a minute.
ServTime(time_est) ==
    LET tenths == IF time_est \in TiesDown THEN time_est \div 6
                  ELSE (time_est + 3) \div 6
    IN IF tenths < 1 THEN 1 ELSE tenths

\* The abb_miles_dict given to validate_itin_times: lengths in hundredths of
\* a mile, the short ones and one of five miles.
TimeMilesDicts ==
    MilesDicts \cup { [l \in S |-> 500] : S \in (SUBSET Links) \ {{}} }

InitTime ==
    /\ abb_miles_dict \in TimeMilesDicts
    /\ prev_arr_time = 0
    /\ arr_before = 0
    /\ seg_in = NoSeg
    /\ seg_out = NoSeg
    /\ pc = "cursor"
    /\ result = None
    /\ IdlePath
    /\ IdleMeas
    /\ IdleTipid

\* One row of the loop: adjust, re-estimate when dep_time = arr_time, write
\* the row back and carry its arr_time.
TimeRow ==
    /\ pc = "cursor"
    /\ \E row \in NextSegs(seg_in) :
        LET adj == AdjustTimes(row.order, row.dep, row.arr, prev_arr_time)
            dep_time == adj[1]
            estimate == (dep_time = adj[2])
        IN /\ estimate => row.abb \in DOMAIN abb_miles_dict
           /\ LET time_est == IF estimate THEN TimeEst(abb_miles_dict[row.abb])
                              ELSE 0
                  arr_time == adj[2] + time_est
                  ltime == IF estimate THEN ServTime(time_est) ELSE row.ltime
              IN /\ seg_out' = [row EXCEPT !.dep = dep_time, !.arr = arr_time,
                                           !.ltime = ltime]
                 /\ prev_arr_time' = arr_time
           /\ seg_in' = row
    /\ arr_before' = prev_arr_time
    /\ UNCHANGED <<pc, result, pathVars, abb_miles_dict, measVars, tipVars>>

\* One row of the loop with dep_time = arr_time whose ABB is no key of
\* abb_miles_dict: KeyError, and the row is not written back.
TimeRowKeyError ==
    /\ pc = "cursor"
    /\ \E row \in NextSegs(seg_in) :
        LET adj == AdjustTimes(row.order, row.dep, row.arr, prev_arr_time)
        IN /\ adj[1] = adj[2]
           /\ row.abb \notin DOMAIN abb_miles_dict
           /\ seg_in' = row
           /\ seg_out' = row
           /\ result' = [kind |-> "KeyError", key |-> row.abb]
    /\ pc' = "raised"
    /\ arr_before' = prev_arr_time
    /\ UNCHANGED <<pathVars, abb_miles_dict, measVars, prev_arr_time,
                   tipVars>>

\* The cursor has no more rows: return itin_table.
ReturnTime ==
    /\ pc = "cursor"
    /\ pc' = "returned"
    /\ result' = [kind |-> "returned"]
    /\ UNCHANGED <<pathVars, abb_miles_dict, measVars, timeVars, tipVars>>

NextTime == TimeRow \/ TimeRowKeyError \/ ReturnTime

SpecTime == InitTime /\ [][NextTime]_vars

(***************************************************************************)
(* Properties of the itinerary routines on missing links, and of           *)
(* validate_itin_times.                                                    *)
(***************************************************************************)

\* C8: a row whose ABB has no entry in the lookup makes the routine fail
\* with a "missing link" error that names the ABB, whatever its times.
C8_MissingLink ==
    (seg_in.route # 0 /\ seg_in.abb \notin DOMAIN abb_miles_dict) =>
        /\ pc = "raised"
        /\ result = [kind |-> "MissingLink", link |-> seg_in.abb]

\* A step that writes a row back.
Written == pc' # "raised" /\ seg_in' # seg_in

\* C9 as stated: every written row arrives no earlier than it departs, and
\* every row after the first of its route departs no earlier than the row
\* before it arrives, as written.
C9_Original ==
    [][Written =>
        /\ seg_out'.arr >= seg_out'.dep
        /\ seg_out.route = seg_out'.route => seg_out'.dep >= seg_out.arr]_vars

\* C9, amended: every written row whose input ARR_TIME is not earlier than
\* its input DEP_TIME arrives no earlier than it departs, and every row after
\* the first of its route departs no earlier than the row before it arrives,
\* as written.
C9_Monotone ==
    [][Written =>
        /\ seg_in'.arr >= seg_in'.dep => seg_out'.arr >= seg_out'.dep
        /\ seg_out.route = seg_out'.route => seg_out'.dep >= seg_out.arr]_vars

\* A later row of a route whose DEP_TIME was moved forward past its
\* ARR_TIME, which was moved with it.
C9_Witness ==
    /\ pc # "raised"
    /\ seg_in.order > 1
    /\ seg_in.dep < seg_in.arr
    /\ seg_in.arr < seg_out.dep
    /\ seg_out.arr > seg_out.dep

\* C10: no written DEP_TIME or ARR_TIME is earlier than the input one.
C10_ForwardOnly ==
    seg_in.route # 0 =>
        /\ seg_out.dep >= seg_in.dep
        /\ seg_out.arr >= seg_in.arr

\* A row that was moved forward and then given an estimated travel time.
C10_Witness ==
    /\ pc # "raised"
    /\ seg_in.order > 1
    /\ seg_in.dep < seg_out.dep
    /\ seg_in.arr < seg_out.arr
    /\ seg_out.arr > seg_out.dep
    /\ seg_in.arr <= seg_in.dep

\* e is num / den rounded to the nearest integer, a half rounding up.
IsRounded(e, num, den) ==
    2 * den * e - den <= 2 * num /\ 2 * num < 2 * den * e + den

\* A step that writes back a row that is not the first of its route and
\* whose input DEP_TIME lies before the ARR_TIME written for the row before.
WrittenEarly ==
    /\ Written
    /\ seg_out.route = seg_in'.route
    /\ seg_in'.dep < seg_out.arr

\* C11 as stated: such a row's written DEP_TIME and ARR_TIME are both d
\* seconds later than the input ones, d being the discrepancy, and the
\* carried prev_arr_time is the written ARR_TIME.
C11_Original ==
    [][WrittenEarly =>
        LET d == seg_out.arr - seg_in'.dep
        IN /\ seg_out'.dep = seg_in'.dep + d
           /\ seg_out'.arr = seg_in'.arr + d
           /\ prev_arr_time' = seg_out'.arr]_vars

\* C11, amended: such a row's written DEP_TIME is d seconds later than the
\* input one; its written ARR_TIME is the input one when that is later than
\* the moved DEP_TIME, and otherwise the moved DEP_TIME plus the time
\* estimated for the link at 30 mph; the carried prev_arr_time is the written
\* ARR_TIME.
C11_Shift ==
    [][WrittenEarly =>
        LET d == seg_out.arr - seg_in'.dep
        IN /\ seg_out'.dep = seg_in'.dep + d
           /\ IF seg_in'.arr > seg_in'.dep + d
              THEN seg_out'.arr = seg_in'.arr
              ELSE /\ seg_in'.abb \in DOMAIN abb_miles_dict
                   /\ IsRounded(seg_out'.arr - seg_out'.dep,
                                12 * abb_miles_dict[seg_in'.abb], 10)
           /\ prev_arr_time' = seg_out'.arr]_vars

\* A row that cannot be its route's first, moved forward by more seconds
\* than its ARR_TIME was.
C11_Witness ==
    /\ pc # "raised"
    /\ seg_in.order > 2
    /\ seg_in.dep < arr_before
    /\ seg_out.dep = arr_before
    /\ seg_in.arr > seg_in.dep
    /\ seg_out.arr - seg_in.arr < seg_out.dep - seg_in.dep
    /\ prev_arr_time = seg_out.arr

\* A step in which the loop body takes a row that is not the first of its
\* route, moves its DEP_TIME forward, and the moved DEP_TIME passes its
\* ARR_TIME.
TakenPastArrival ==
    /\ seg_in' # seg_in
    /\ seg_out.route = seg_in'.route
    /\ seg_in'.dep < seg_out.arr
    /\ seg_in'.arr < seg_out.arr

\* <<dep_time, arr_time>> of the row taken in a step, after the adjustment
\* and before the travel time is re-estimated.
AdjustedTaken ==
    AdjustTimes(seg_in'.order, seg_in'.dep, seg_in'.arr, prev_arr_time)

\* C12 as stated: the adjustment then moves ARR_TIME forward by at least the
\* discrepancy d by which it moved DEP_TIME.
C12_Original ==
    [][TakenPastArrival =>
        AdjustedTaken[2] - seg_in'.arr >= seg_out.arr - seg_in'.dep]_vars

\* C12, amended: the adjustment then moves ARR_TIME forward to the moved
\* DEP_TIME, that is by d - (ARR_TIME - DEP_TIME): by d when the two were
\* equal, by less when ARR_TIME was the later, by more when it was the
\* earlier.
C12_ShiftToDeparture ==
    [][TakenPastArrival =>
        LET d == seg_out.arr - seg_in'.dep
        IN /\ AdjustedTaken[1] = seg_in'.dep + d
           /\ AdjustedTaken[2] = AdjustedTaken[1]
           /\ AdjustedTaken[2] - seg_in'.arr = d - (seg_in'.arr - seg_in'.dep)
           /\ pc' # "raised" => seg_out'.dep = AdjustedTaken[1]]_vars

\* A row that cannot be its route's first, whose ARR_TIME lay after its
\* DEP_TIME and before the ARR_TIME written for the row before it.
C12_Witness ==
    /\ pc # "raised"
    /\ seg_in.order > 2
    /\ seg_in.dep < seg_in.arr
    /\ seg_in.arr < arr_before
    /\ seg_out.dep = arr_before
    /\ seg_out.arr >= arr_before

\* A step in which a row is written whose DEP_TIME and ARR_TIME are equal
\* once adjusted.
WrittenEqual ==
    /\ Written
    /\ AdjustedTaken[1] = AdjustedTaken[2]

\* C13: a row whose DEP_TIME equals its ARR_TIME, as read or once adjusted,
\* has ARR_TIME raised by the seconds nearest to its length / 30 * 3600 and
\* LINE_SERV_TIME set to the minutes nearest to a tenth of those seconds / 60,
\* and to no less than 0.1; five miles add 600 seconds and set 10.0 minutes,
\* no miles add nothing and set 0.1 minutes.
C13_Estimate ==
    [][WrittenEqual =>
        /\ seg_in'.abb \in DOMAIN abb_miles_dict
        /\ LET h == abb_miles_dict[seg_in'.abb]
               est == seg_out'.arr - AdjustedTaken[2]
               t == seg_out'.ltime
           IN /\ IsRounded(est, 12 * h, 10)
              /\ t >= 1
              /\ \/ 6 * t - 3 <= est /\ est <= 6 * t + 3
                 \/ t = 1 /\ est < 3
              /\ h = 500 => est = 600 /\ t = 100
              /\ h = 0 => est = 0 /\ t = 1]_vars

\* A row of five miles moved up to the ARR_TIME before it, and written with
\* 600 seconds more and 10.0 minutes.
C13_Witness ==
    /\ pc # "raised"
    /\ seg_in.order > 2
    /\ seg_in.abb \in DOMAIN abb_miles_dict
    /\ abb_miles_dict[seg_in.abb] = 500
    /\ seg_in.arr < arr_before
    /\ seg_out.dep = arr_before
    /\ seg_out.arr = arr_before + 600
    /\ seg_out.ltime = 100

\* C16: a row with ITIN_ORDER 1 is written with the DEP_TIME it was read
\* with, whatever ARR_TIME was carried over from the row before it.
C16_FirstKeepsDeparture ==
    seg_in.order = 1 => seg_out.dep = seg_in.dep

\* The first row of the second route, read with a DEP_TIME before the
\* ARR_TIME written for the last row of the first route, and written back.
C16_Witness ==
    /\ pc # "raised"
    /\ seg_in.route = 2
    /\ seg_in.order = 1
    /\ seg_in.dep < arr_before
    /\ seg_out.dep = seg_in.dep
    /\ prev_arr_time = seg_out.arr

\* Some tuple has more copies in the heap after the step than before it.
Pushed ==
    \E x \in BagToSet(queue') : CopiesIn(x, queue') > CopiesIn(x, queue)

\* C15: with costs of zero or more, every node is added to seen, and its
\* edges are pushed, at most once; a pop of a node already in seen changes
\* the queue only; and the costs at which nodes are added to seen never
\* decrease.
C15_VisitOnce ==
    [][/\ Len(visit_costs') = Cardinality(seen')
       /\ \A i \in 1..(Len(visit_costs') - 1) :
            visit_costs'[i] <= visit_costs'[i + 1]
       /\ seen' # seen => \E n \in Nodes \ seen : seen' = seen \cup {n}
       /\ Pushed => seen' # seen
       /\ (queue # EmptyBag /\ HeapMin(queue)[2] \in seen) =>
            /\ queue' \sqsubseteq queue
            /\ UNCHANGED <<pc, result, graph, start, end, seen, visit_costs>>
      ]_vars

\* Two nodes were added to seen, the second at a greater cost than the
\* first, and the next pop takes a node that is in seen.
C15_Witness ==
    /\ pc = "loop"
    /\ Len(visit_costs) >= 2
    /\ visit_costs[1] < visit_costs[Len(visit_costs)]
    /\ queue # EmptyBag
    /\ HeapMin(queue)[2] \in seen

\* C18: on every graph, with cycles and edges of cost zero among them, and
\* every start and end, the loop is left after finitely many iterations, by
\* the return or by the pop of the empty queue.
C18_Terminates == <>(pc # "loop")

\* The queue ran empty after both nodes of a cycle of cost zero were visited.
C18_Witness ==
    /\ pc = "raised"
    /\ queue = EmptyBag
    /\ \E a \in seen : \E b \in seen \ {a} :
        /\ a \in DOMAIN graph /\ b \in DOMAIN graph[a] /\ graph[a][b] = 0
        /\ b \in DOMAIN graph /\ a \in DOMAIN graph[b] /\ graph[b][a] = 0

\* TRANSIT_LINE, ITIN_ORDER and ABB of a row.
RowKey(row) == <<row.route, row.order, row.abb>>

\* C17: calculate_itin_measures leaves abb_miles_dict as it was, and the
\* table keeps its rows in their places, each with the TRANSIT_LINE,
\* ITIN_ORDER and ABB it came with; only F_MEAS and T_MEAS are written.
C17_OnlyMeasures ==
    [][/\ abb_miles_dict' = abb_miles_dict
       /\ Len(itin_table') = Len(itin_in)
       /\ \A i \in 1..Len(itin_in) :
            RowKey(itin_table'[i]) = RowKey(itin_in[i])
       /\ \A i \in 1..Len(itin_in) :
            itin_table'[i] # itin_table[i] =>
                itin_table'[i] =
                    [itin_table[i] EXCEPT !.f_meas = itin_table'[i].f_meas,
                                          !.t_meas = itin_table'[i].t_meas]
      ]_vars

\* The routine returned from a table of three rows or more that is stored
\* against its (TRANSIT_LINE, ITIN_ORDER) order, every row with its measures
\* written.
C17_Witness ==
    /\ pc = "returned"
    /\ Len(itin_table) >= 3
    /\ ~RowBefore(itin_in[1], itin_in[Len(itin_in)])
    /\ \A i \in 1..Len(itin_table) :
        /\ itin_table[i].f_meas # NullMeasure
        /\ itin_table[i].t_meas # NullMeasure
        /\ RowKey(itin_table[i]) = RowKey(itin_in[i])

(***************************************************************************)
(* tipid_from_int, tipid_to_int, is_tipid                                  *)
(*                                                                         *)
(* A Python string is the sequence of its characters; a returned string is *)
(* [kind |-> "str", val |-> characters], a returned integer is             *)
(* [kind |-> "int", val |-> number].                                       *)
(***************************************************************************)

DigitChars == <<"0", "1", "2", "3", "4", "5", "6", "7", "8", "9">>

IsDigit(c) == \E d \in 1..Len(DigitChars) : DigitChars[d] = c

DigitOf(c) == (CHOOSE d \in 1..Len(DigitChars) : DigitChars[d] = c) - 1

\* str(n) of an integer n.
RECURSIVE NatStr(_)
NatStr(n) ==
    IF n < 10 THEN <<DigitChars[n + 1]>>
    ELSE Append(NatStr(n \div 10), DigitChars[(n % 10) + 1])

Str(n) == IF n < 0 THEN <<"-">> \o NatStr(0 - n) ELSE NatStr(n)

Zeros(k) == [i \in 1..k |-> "0"]

ZfillNone(s, width) == s

\* s.zfill(width): zeros on the left up to width, after a leading sign.
Zfill(s, width) ==
    IF Len(s) >= width THEN s
    ELSE IF s # <<>> /\ s[1] \in {"-", "+"}
         THEN <<s[1]>> \o Zeros(width - Len(s)) \o Tail(s)
         ELSE Zeros(width - Len(s)) \o s

\* s[a:b] for 0 <= a <= b.
Slice(s, a, b) == SubSeq(s, a + 1, IF b < Len(s) THEN b ELSE Len(s))

\* sep.join(parts)
RECURSIVE Join(_, _)
Join(sep, parts) ==
    IF parts = <<>> THEN <<>>
    ELSE IF Len(parts) = 1 THEN parts[1]
    ELSE parts[1] \o <<sep>> \o Join(sep, Tail(parts))

\* s.split(sep) for a one-character sep.
RECURSIVE Split(_, _)
Split(s, sep) ==
    IF \A i \in 1..Len(s) : s[i] # sep THEN <<s>>
    ELSE LET i == CHOOSE k \in 1..Len(s) :
                    s[k] = sep /\ \A j \in 1..(k - 1) : s[j] # sep
         IN <<SubSeq(s, 1, i - 1)>> \o Split(SubSeq(s, i + 1, Len(s)), sep)

\* s.replace(old, '') for a one-character old.
RECURSIVE Remove(_, _)
Remove(s, old) ==
    IF s = <<>> THEN <<>>
    ELSE IF Head(s) = old THEN Remove(Tail(s), old)
    ELSE <<Head(s)>> \o Remove(Tail(s), old)

\* int(s) raises ValueError unless s is digits after an optional sign.
Unsigned(s) == IF s # <<>> /\ s[1] \in {"-", "+"} THEN Tail(s) ELSE s

IntParses(s) ==
    /\ Unsigned(s) # <<>>
    /\ \A i \in 1..Len(Unsigned(s)) : IsDigit(Unsigned(s)[i])

RECURSIVE NatOf(_)
NatOf(s) ==
    IF s = <<>> THEN 0
    ELSE 10 * NatOf(SubSeq(s, 1, Len(s) - 1)) + DigitOf(s[Len(s)])

IntOf(s) ==
    IF s # <<>> /\ s[1] = "-" THEN 0 - NatOf(Unsigned(s)) ELSE NatOf(Unsigned(s))

PyStr(s) == [kind |-> "str", val |-> s]

PyInt(n) == [kind |-> "int", val |-> n]

\* is_tipid: any exception on the way (len of None, a part that is no
\* number, more or fewer than three parts) leaves the answer False.
IsTipid(in_str) ==
    /\ in_str.kind = "str"
    /\ Len(in_str.val) = 10
    /\ LET pts == Split(in_str.val, "-")
       IN /\ Len(pts) = 3
          /\ \A i \in 1..3 : IntParses(pts[i])
          /\ 0 <= IntOf(pts[1]) /\ IntOf(pts[1]) <= 99
          /\ 0 <= IntOf(pts[2]) /\ IntOf(pts[2]) <= 99
          /\ 0 <= IntOf(pts[3]) /\ IntOf(pts[3]) <= 9999

\* tipid_from_int for an integer n (int(n), str, zfill and join cannot raise
\* then).
TipidFromInt(n) ==
    LET n_str == Zfill(Str(n), 8)
        tipid == PyStr(Join("-", <<Slice(n_str, 0, 2), Slice(n_str, 2, 4),
                                   Slice(n_str, 4, Len(n_str))>>))
    IN IF IsTipid(tipid) THEN tipid ELSE None

TipidToInt(tipid) ==
    IF IsTipid(tipid) THEN PyInt(IntOf(Remove(tipid.val, "-"))) ELSE None

\* The digits the numerals of the inputs are written with.
TipDigits == {0, 1, 9}

\* The numbers written with at most len of these digits.
RECURSIVE Numerals(_)
Numerals(len) ==
    IF len = 0 THEN {0}
    ELSE { 10 * v + d : v \in Numerals(len - 1), d \in TipDigits }

\* The integers passed as n: the numerals of up to nine digits, the numbers
\* up to MaxLow above them, and the negatives of all these.
TipInputs ==
    { sign * (v + e) : sign \in {0 - 1, 1}, v \in Numerals(9), e \in 0..MaxLow }

InitTipid ==
    /\ tip_n \in TipInputs
    /\ tip_id = None
    /\ tip_int = None
    /\ pc = "from_int"
    /\ result = None
    /\ abb_miles_dict = <<>>
    /\ IdlePath
    /\ IdleMeas
    /\ IdleTime

\* tipid = tipid_from_int(n)
CallFromInt ==
    /\ pc = "from_int"
    /\ tip_id' = TipidFromInt(tip_n)
    /\ pc' = "to_int"
    /\ UNCHANGED <<result, pathVars, abb_miles_dict, measVars, timeVars, tip_n,
                   tip_int>>

\* tipid_to_int(tipid), of what tipid_from_int returned.
CallToInt ==
    /\ pc = "to_int"
    /\ tip_int' = TipidToInt(tip_id)
    /\ pc' = "returned"
    /\ UNCHANGED <<result, pathVars, abb_miles_dict, measVars, timeVars, tip_n,
                   tip_id>>

NextTipid == CallFromInt \/ CallToInt

SpecTipid == InitTipid /\ [][NextTipid]_vars

(***************************************************************************)
(* Properties of the TIPID conversions.                                    *)
(***************************************************************************)

\* Two digits, a dash, two digits, a dash, four digits.
TipidShape(s) ==
    /\ Len(s) = 10
    /\ \A i \in 1..10 : IF i \in {3, 6} THEN s[i] = "-" ELSE IsDigit(s[i])

\* C14: for 0 <= n < 100,000,000, tipid_from_int(n) is a string that
\* is_tipid accepts and tipid_to_int turns back into n; for a negative n and
\* for n >= 100,000,000, tipid_from_int(n) is None.
C14_RoundTrip ==
    /\ pc \in {"to_int", "returned"} =>
        IF 0 <= tip_n /\ tip_n < 100000000
        THEN /\ tip_id # None
             /\ tip_id.kind = "str"
             /\ TipidShape(tip_id.val)
             /\ IsTipid(tip_id)
        ELSE tip_id = None
    /\ pc = "returned" /\ 0 <= tip_n /\ tip_n < 100000000 =>
        tip_int = PyInt(tip_n)

\* The greatest n that has a TIPID went there and back.
C14_Witness ==
    /\ pc = "returned"
    /\ tip_n = 99999999
    /\ tip_id = PyStr(<<"9", "9", "-", "9", "9", "-", "9", "9", "9", "9">>)
    /\ tip_int = PyInt(99999999)

====
